---- MODULE Spec2Model ----
(***************************************************************************)
(* Model of the grid generator (GridGenerator, src/unnamed/part_000).      *)
(*                                                                         *)
(* Representation of the program's Float values:                           *)
(*   - a coordinate (degrees) is an integer number of units, one unit      *)
(*     being 1/UnitsPerDegree of a degree; a point is <<lon, lat>>;        *)
(*   - a price is an integer number of hundredths (PriceScale per unit),   *)
(*     so that rounding to 2 decimals is rounding to an integer;           *)
(*   - a String is a sequence of one-character strings.                    *)
(* Arithmetic on these values is exact: the rounding error of IEEE         *)
(* doubles is outside the model.                                           *)
(***************************************************************************)
EXTENDS Integers, Sequences, FiniteSets, TLC

----------------------------------------------------------------------------
(* Bounds of the model                                                     *)

\* largest number of data rows in the listings file
MaxRows == 3

----------------------------------------------------------------------------
(* Number representation                                                   *)

\* units per degree of the fixed-point coordinates
UnitsPerDegree == 2220

\* hundredths per price unit
PriceScale == 100

\* @meters_per_degree_lat
MetersPerDegreeLat == 111000

\* @meters_per_degree_lon = 111000.0 * cos(38.7 deg), with the cosine
\* taken as 0.8 (the source's own comment rounds it to 88,000 m)
MetersPerDegreeLon == 88800

Sign(n) == IF n < 0 THEN -1 ELSE IF n > 0 THEN 1 ELSE 0

MinOf(S) == CHOOSE m \in S : \A n \in S : m <= n

MaxOf(S) == CHOOSE m \in S : \A n \in S : m >= n

\* variant: one more than the whole part of the quotient
CeilDivNext(a, b) == (a \div b) + 1

\* Float#ceil of the quotient a / b, b > 0
CeilDiv(a, b) == -((-a) \div b)

\* Float#round of the quotient a / b, b > 0: nearest integer, halves away
\* from zero
RoundDiv(a, b) == IF a >= 0 THEN (2 * a + b) \div (2 * b) ELSE -((2 * (-a) + b) \div (2 * b))

RECURSIVE SumSeq(_)
SumSeq(s) == IF s = <<>> THEN 0 ELSE Head(s) + SumSeq(Tail(s))

meters_to_degrees_lat(meters) == (meters * UnitsPerDegree) \div MetersPerDegreeLat

meters_to_degrees_lon(meters) == (meters * UnitsPerDegree) \div MetersPerDegreeLon

----------------------------------------------------------------------------
(* Planar geometry of the Cartesian factory (rings of integer points)      *)

\* cross product of (b - a) and (p - a)
Cross(a, b, p) == (b[1] - a[1]) * (p[2] - a[2]) - (b[2] - a[2]) * (p[1] - a[1])

Between(v, a, b) == (a <= v /\ v <= b) \/ (b <= v /\ v <= a)

OnSegment(p, a, b) == Cross(a, b, p) = 0 /\ Between(p[1], a[1], b[1]) /\ Between(p[2], a[2], b[2])

\* p lies on the boundary of the polygon whose exterior ring is ring
OnBoundary(p, ring) == \E i \in 1..(Len(ring) - 1) : OnSegment(p, ring[i], ring[i + 1])

\* the edge a-b crosses the horizontal ray going right from p
RayCrosses(p, a, b) ==
    /\ (a[2] > p[2]) # (b[2] > p[2])
    /\ IF b[2] > a[2]
       THEN (p[1] - a[1]) * (b[2] - a[2]) < (p[2] - a[2]) * (b[1] - a[1])
       ELSE (p[1] - a[1]) * (b[2] - a[2]) > (p[2] - a[2]) * (b[1] - a[1])

Crossings(p, ring) == Cardinality({i \in 1..(Len(ring) - 1) : RayCrosses(p, ring[i], ring[i + 1])})

\* p lies in the interior of the polygon
InInterior(p, ring) == ~OnBoundary(p, ring) /\ Crossings(p, ring) % 2 = 1

\* p lies in the polygon, boundary included
Covers(ring, p) == OnBoundary(p, ring) \/ Crossings(p, ring) % 2 = 1

\* the closed segments a-b and c-d have a point in common
SegmentsIntersect(a, b, c, d) ==
    \/ /\ Sign(Cross(a, b, c)) # Sign(Cross(a, b, d))
       /\ Sign(Cross(c, d, a)) # Sign(Cross(c, d, b))
    \/ OnSegment(c, a, b)
    \/ OnSegment(d, a, b)
    \/ OnSegment(a, c, d)
    \/ OnSegment(b, c, d)

\* Geometry#intersects? of two polygons: they have at least one point in
\* common (interior or boundary)
Intersects(ringA, ringB) ==
    \/ \E i \in 1..Len(ringA) : Covers(ringB, ringA[i])
    \/ \E j \in 1..Len(ringB) : Covers(ringA, ringB[j])
    \/ \E i \in 1..(Len(ringA) - 1), j \in 1..(Len(ringB) - 1) :
          SegmentsIntersect(ringA[i], ringA[i + 1], ringB[j], ringB[j + 1])

\* Geometry#contains? of a polygon and a point: the point lies in the
\* interior of the polygon (a point of the boundary is not contained)
Contains(ring, p) == InInterior(p, ring)

----------------------------------------------------------------------------
(* Strings and the price field                                             *)

Digits == {"0", "1", "2", "3", "4", "5", "6", "7", "8", "9"}

DigitVal(ch) ==
    CASE ch = "0" -> 0 [] ch = "1" -> 1 [] ch = "2" -> 2 [] ch = "3" -> 3
      [] ch = "4" -> 4 [] ch = "5" -> 5 [] ch = "6" -> 6 [] ch = "7" -> 7
      [] ch = "8" -> 8 [] ch = "9" -> 9

\* String#gsub(/[$,]/, ''): the string without its "$" and "," characters
StripCurrency(str) == SelectSeq(str, LAMBDA ch : ch \notin {"$", ","})

\* the longest prefix of str made of digits
RECURSIVE DigitPrefix(_)
DigitPrefix(str) ==
    IF str # <<>> /\ Head(str) \in Digits
    THEN <<Head(str)>> \o DigitPrefix(Tail(str))
    ELSE <<>>

RECURSIVE DigitsValue(_, _)
DigitsValue(str, acc) ==
    IF str = <<>> THEN acc ELSE DigitsValue(Tail(str), 10 * acc + DigitVal(Head(str)))

\* String#to_f, in hundredths: an optional sign, the leading digits and an
\* optional "." with its digits are read, whatever follows is ignored, and a
\* string with no leading number is 0.0. Digits after the second decimal
\* are dropped (the strings of the model have at most two).
StringToF(str) ==
    LET neg == str # <<>> /\ Head(str) = "-"
        body == IF neg THEN Tail(str) ELSE str
        int == DigitPrefix(body)
        rest == SubSeq(body, Len(int) + 1, Len(body))
        frac == IF int # <<>> /\ rest # <<>> /\ Head(rest) = "."
                THEN DigitPrefix(Tail(rest))
                ELSE <<>>
        frac2 == SubSeq(frac \o <<"0", "0">>, 1, 2)
        magnitude == DigitsValue(int, 0) * PriceScale + DigitsValue(frac2, 0)
    IN  IF neg THEN -magnitude ELSE magnitude

\* row['latitude'].to_f and row['longitude'].to_f: the field is <<n>> for
\* the text of the number n (in units) and <<>> for an empty or absent
\* field, which to_f reads as 0.0
CoordToF(field) == IF field = <<>> THEN 0 ELSE field[1]

----------------------------------------------------------------------------
(* Inputs                                                                  *)

Triangle == <<<<1, 1>>, <<10, 1>>, <<1, 10>>, <<1, 1>>>>

LShape == <<<<1, 1>>, <<11, 1>>, <<11, 5>>, <<5, 5>>, <<5, 9>>, <<1, 9>>, <<1, 1>>>>

Wedge == <<<<1, 11>>, <<11, 11>>, <<11, 1>>, <<1, 11>>>>

\* an interior ring (a hole) of Triangle and of LShape
Hole == <<<<2, 2>>, <<4, 2>>, <<2, 4>>, <<2, 2>>>>

\* a second, far away polygon
Islet == <<<<20, 20>>, <<22, 20>>, <<22, 22>>, <<20, 22>>, <<20, 20>>>>

PolygonGeometry(rings) == [type |-> "Polygon", coordinates |-> rings]

MultiPolygonGeometry(polygons) == [type |-> "MultiPolygon", coordinates |-> polygons]

Feature(geometry) == [type |-> "Feature", geometry |-> geometry]

FeatureCollection(features) == [type |-> "FeatureCollection", features |-> features]

\* the contents of data/src/<city>/outline.geojson: a parsed document, or
\* the exception File.read / JSON.parse raises
OutlineFiles ==
    { FeatureCollection(<<Feature(PolygonGeometry(<<LShape, Hole>>)), Feature(PolygonGeometry(<<Islet>>))>>),
      Feature(MultiPolygonGeometry(<<<<Triangle, Hole>>, <<Islet>>>>)),
      PolygonGeometry(<<Wedge>>),
      [type |-> "Feature"],
      [type |-> "Point", coordinates |-> <<3, 3>>],
      Feature([type |-> "LineString", coordinates |-> Triangle]),
      FeatureCollection(<<>>),
      [exception |-> "Errno::ENOENT"],
      [exception |-> "JSON::ParserError"] }

\* the data rows data/src/<city>/listings.csv is made of
CsvRows ==
    { [price |-> <<"$", "5", "0", ".", "0", "0">>, latitude |-> <<3>>, longitude |-> <<3>>],
      [price |-> <<"1", "0", "0">>, latitude |-> <<3>>, longitude |-> <<3>>],
      [price |-> <<"$", "1", "5", "0", ".", "0", "0">>, latitude |-> <<3>>, longitude |-> <<6>>],
      [price |-> <<"$", "1", ",", "0", "5", "0", ".", "5", "0">>, latitude |-> <<11>>, longitude |-> <<8>>],
      [price |-> <<"7", "5", ".", "2", "5">>, latitude |-> <<7>>, longitude |-> <<8>>],
      [price |-> <<"a", "b", "c">>, latitude |-> <<3>>, longitude |-> <<3>>],
      [price |-> <<"8", "0">>, latitude |-> <<>>, longitude |-> <<3>>],
      [price |-> <<"8", "0">>, latitude |-> <<3>>, longitude |-> <<0>>] }

\* the cell sizes (meters) the generator is constructed with
CellSizes == {200, 400}

----------------------------------------------------------------------------
(* State                                                                   *)

VARIABLES
    pc,            \* the statement of the script or of generate the run is at
    cell_size,     \* main's cell_size and @cell_size, meters
    outline_file,  \* what reading and parsing @outline_file gives
    csv,           \* the data rows of @airbnb_file read so far
    outline,       \* load_city_outline's result: the exterior ring
    listings,      \* load_airbnb_data's listings
    grid,          \* create_grid's locals: bounds, cell sizes, cols, rows, row, col, cell_id
    grid_cells,    \* create_grid's grid_cells
    cell_index,    \* process_grid's index i into grid_cells (from 1)
    features,      \* process_grid's features
    output_file,   \* the documents written to data/<city>_<size>.geojson, in order
    exit_status,   \* the process's exit status, None while it runs
    argv,          \* ARGV, the command's arguments
    files,         \* which of the two input files of the city exist
    city,          \* main's city and @city
    usage,         \* whether print_usage has printed the usage text
    search,        \* window.location.search: the query parameters given
    params,        \* GameConfig's this.params
    thrown,        \* the Error the GameConfig constructor threw
    data_url,      \* what getDataURL returned
    generated,     \* the path written by the generator run for the page's city and gridSize
    geojsonData,   \* the features handed to initializeGame
    cells,         \* this.cells
    gameState,     \* this.gameState
    mineCount,     \* this.mineCount
    flagCount,     \* this.flagCount
    revealedCount, \* this.revealedCount
    timerInterval, \* this.timerInterval
    intervals,     \* the intervals set with setInterval and not cleared
    stack          \* the call stack of the running event handler, innermost first

\* the state of the generator's run
generatorVars == <<pc, cell_size, outline_file, csv, outline, listings, grid, grid_cells, cell_index, features, output_file, exit_status>>

\* the state of the command around it
cliVars == <<argv, files, city, usage>>

\* the state of the page's configuration
configVars == <<search, params, thrown, data_url, generated>>

\* the state of the game
gameVars == <<geojsonData, cells, gameState, mineCount, flagCount, revealedCount, timerInterval, intervals, stack>>

vars == <<generatorVars, cliVars, configVars, gameVars>>

\* no exit status yet: the process runs
None == <<>>

\* the process has exited with status n
Exit(n) == <<n>>

NoGrid == [min_lon |-> 0, min_lat |-> 0, max_lon |-> 0, max_lat |-> 0, cell_size_lat |-> 0, cell_size_lon |-> 0, cols |-> 0, rows |-> 0, row |-> 0, col |-> 0, cell_id |-> 0]

\* Integer#to_s and the interpolation of an integer in a string
RECURSIVE DigitsOf(_)
DigitsOf(n) ==
    IF n < 10
    THEN <<CHOOSE ch \in Digits : DigitVal(ch) = n>>
    ELSE Append(DigitsOf(n \div 10), CHOOSE ch \in Digits : DigitVal(ch) = n % 10)

ToS(n) == IF n < 0 THEN <<"-">> \o DigitsOf(-n) ELSE DigitsOf(n)

\* the city of the examples of the usage text, "lisboa", shortened
Lisboa == <<"l", "x">>

\* the command that constructs the generator for a cell size: both input
\* files exist and the arguments have been accepted
Launched(size) ==
    /\ argv = <<Lisboa, ToS(size)>>
    /\ files = {"outline", "listings"}
    /\ city = Lisboa
    /\ usage = FALSE

\* no page is open: nothing is configured
PageNotLoaded ==
    /\ search = None
    /\ params = None
    /\ thrown = None
    /\ data_url = None
    /\ generated = None

\* new MinesweeperGame(): the constructor's assignments
MinesweeperGame ==
    /\ geojsonData = None
    /\ cells = <<>>
    /\ gameState = "ready"
    /\ mineCount = 0
    /\ flagCount = 0
    /\ revealedCount = 0
    /\ timerInterval = None
    /\ intervals = {}
    /\ stack = <<>>

\* GridGenerator.new(city, cell_size) followed by the call of generate
Init ==
    /\ pc = "load_city_outline"
    /\ cell_size \in CellSizes
    /\ outline_file \in OutlineFiles
    /\ csv = <<>>
    /\ outline = <<>>
    /\ listings = <<>>
    /\ grid = NoGrid
    /\ grid_cells = <<>>
    /\ cell_index = 0
    /\ features = <<>>
    /\ output_file = <<>>
    /\ exit_status = None
    /\ Launched(cell_size)
    /\ PageNotLoaded
    /\ MinesweeperGame

----------------------------------------------------------------------------
(* load_city_outline                                                       *)

HasKey(doc, key) == key \in DOMAIN doc

\* the geometry the document is read as
GeometryData(geojson) ==
    IF geojson.type = "FeatureCollection" THEN geojson.features[1].geometry
    ELSE IF HasKey(geojson, "geometry") THEN geojson.geometry
    ELSE geojson

\* the begin block raises: the file cannot be read or parsed, the feature
\* collection has no first feature, or the geometry type is unsupported
OutlineRaises(file) ==
    \/ HasKey(file, "exception")
    \/ file.type = "FeatureCollection" /\ file.features = <<>>
    \/ GeometryData(file).type \notin {"MultiPolygon", "Polygon"}

\* variant: the last polygon of a MultiPolygon is taken
PolygonCoordsLast(geometry_data) ==
    IF geometry_data.type = "MultiPolygon"
    THEN geometry_data.coordinates[Len(geometry_data.coordinates)][1]
    ELSE geometry_data.coordinates[1]

\* polygon_coords: the exterior ring of the (first) polygon
PolygonCoords(geometry_data) ==
    IF geometry_data.type = "MultiPolygon"
    THEN geometry_data.coordinates[1][1]
    ELSE geometry_data.coordinates[1]

\* variant: the rescue clause exits with status 0
load_city_outline_exit0 ==
    /\ pc = "load_city_outline"
    /\ IF OutlineRaises(outline_file)
       THEN /\ pc' = "exited"
            /\ exit_status' = Exit(0)
            /\ UNCHANGED outline
       ELSE /\ pc' = "load_airbnb_data"
            /\ outline' = PolygonCoords(GeometryData(outline_file))
            /\ UNCHANGED exit_status
    /\ UNCHANGED <<cell_size, outline_file, csv, listings, grid, grid_cells, cell_index, features, output_file>>
    /\ UNCHANGED <<cliVars, configVars, gameVars>>

load_city_outline ==
    /\ pc = "load_city_outline"
    /\ IF OutlineRaises(outline_file)
       THEN /\ pc' = "exited"
            /\ exit_status' = Exit(1)
            /\ UNCHANGED outline
       ELSE /\ pc' = "load_airbnb_data"
            /\ outline' = PolygonCoords(GeometryData(outline_file))
            /\ UNCHANGED exit_status
    /\ UNCHANGED <<cell_size, outline_file, csv, listings, grid, grid_cells, cell_index, features, output_file>>
    /\ UNCHANGED <<cliVars, configVars, gameVars>>

----------------------------------------------------------------------------
(* load_airbnb_data                                                        *)

RowPrice(row) == StringToF(StripCurrency(row.price))

\* variant: the longitude is not looked at
SkipRowNoLon(row) == RowPrice(row) <= 0 \/ CoordToF(row.latitude) = 0

\* the row is skipped by "next if price <= 0 || lat == 0 || lon == 0"
SkipRow(row) == RowPrice(row) <= 0 \/ CoordToF(row.latitude) = 0 \/ CoordToF(row.longitude) = 0

Listing(row) ==
    [price |-> RowPrice(row),
     point |-> <<CoordToF(row.longitude), CoordToF(row.latitude)>>,
     lat |-> CoordToF(row.latitude),
     lon |-> CoordToF(row.longitude)]

\* one iteration of CSV.foreach: the file yields one more data row
ReadRow ==
    /\ pc = "load_airbnb_data"
    /\ Len(csv) < MaxRows
    /\ \E row \in CsvRows :
          /\ csv' = Append(csv, row)
          /\ listings' = IF SkipRow(row) THEN listings ELSE Append(listings, Listing(row))
    /\ UNCHANGED <<pc, cell_size, outline_file, outline, grid, grid_cells, cell_index, features, output_file, exit_status>>
    /\ UNCHANGED <<cliVars, configVars, gameVars>>

\* CSV.foreach raises (the file cannot be opened, or the next line is
\* malformed): the rescue clause exits with status 1
CsvRaises ==
    /\ pc = "load_airbnb_data"
    /\ pc' = "exited"
    /\ exit_status' = Exit(1)
    /\ UNCHANGED <<cell_size, outline_file, csv, outline, listings, grid, grid_cells, cell_index, features, output_file>>
    /\ UNCHANGED <<cliVars, configVars, gameVars>>

\* CSV.foreach reaches the end of the file: load_airbnb_data returns listings
load_airbnb_data_return ==
    /\ pc = "load_airbnb_data"
    /\ pc' = "create_grid"
    /\ UNCHANGED <<cell_size, outline_file, csv, outline, listings, grid, grid_cells, cell_index, features, output_file, exit_status>>
    /\ UNCHANGED <<cliVars, configVars, gameVars>>

----------------------------------------------------------------------------
(* create_grid                                                             *)

Xs(ring) == {ring[i][1] : i \in 1..Len(ring)}

Ys(ring) == {ring[i][2] : i \in 1..Len(ring)}

\* the statements before the loops: bounding box, cell size in degrees,
\* number of columns and rows, cell_id = 1
GridLocals(outline_geometry, size) ==
    LET min_lon == MinOf(Xs(outline_geometry))
        min_lat == MinOf(Ys(outline_geometry))
        max_lon == MaxOf(Xs(outline_geometry))
        max_lat == MaxOf(Ys(outline_geometry))
        cell_size_lat == meters_to_degrees_lat(size)
        cell_size_lon == meters_to_degrees_lon(size)
    IN  [min_lon |-> min_lon, min_lat |-> min_lat, max_lon |-> max_lon, max_lat |-> max_lat,
         cell_size_lat |-> cell_size_lat, cell_size_lon |-> cell_size_lon,
         cols |-> CeilDiv(max_lon - min_lon, cell_size_lon),
         rows |-> CeilDiv(max_lat - min_lat, cell_size_lat),
         row |-> 0, col |-> 0, cell_id |-> 1]

create_grid_begin ==
    /\ pc = "create_grid"
    /\ grid' = GridLocals(outline, cell_size)
    /\ grid_cells' = <<>>
    /\ pc' = "create_grid_loop"
    /\ UNCHANGED <<cell_size, outline_file, csv, outline, listings, cell_index, features, output_file, exit_status>>
    /\ UNCHANGED <<cliVars, configVars, gameVars>>

\* the ring of cell_polygon
\* variant: the ring runs the other way round, from the top-left corner down
RectangleRingDown(left, top, right, bottom) ==
    <<<<left, top>>, <<left, bottom>>, <<right, bottom>>, <<right, top>>, <<left, top>>>>

RectangleRing(left, top, right, bottom) ==
    <<<<left, top>>, <<right, top>>, <<right, bottom>>, <<left, bottom>>, <<left, top>>>>

\* the cell of lattice position (row, col), numbered cell_id
GridCell(g, row, col, cell_id) ==
    LET left == g.min_lon + col * g.cell_size_lon
        bottom == g.min_lat + row * g.cell_size_lat
        right == left + g.cell_size_lon
        top == bottom + g.cell_size_lat
    IN  [id |-> cell_id, polygon |-> RectangleRing(left, top, right, bottom),
         left |-> left, top |-> top, right |-> right, bottom |-> bottom,
         row |-> row, col |-> col]

\* variant: the cell is kept only when it lies within the outline
KeepCellWithin(outline_geometry, cell) == \A j \in 1..Len(cell.polygon) : Covers(outline_geometry, cell.polygon[j])

\* variant: every cell of the lattice is kept
KeepCellAll(outline_geometry, cell) == TRUE

\* the cell joins grid_cells
KeepCell(outline_geometry, cell) == Intersects(outline_geometry, cell.polygon)

\* variant: only a kept cell consumes an id
NextCellIdKept(cell_id, kept) == IF kept THEN cell_id + 1 ELSE cell_id

\* cell_id after the body of the inner loop
NextCellId(cell_id, kept) == cell_id + 1

\* one iteration of the inner loop, and the step to the next position
create_grid_cell ==
    /\ pc = "create_grid_loop"
    /\ grid.row < grid.rows /\ grid.col < grid.cols
    /\ LET cell == GridCell(grid, grid.row, grid.col, grid.cell_id)
           kept == KeepCell(outline, cell)
           last_col == grid.col + 1 = grid.cols
       IN  /\ grid_cells' = IF kept THEN Append(grid_cells, cell) ELSE grid_cells
           /\ grid' = [grid EXCEPT !.cell_id = NextCellId(grid.cell_id, kept),
                                   !.col = IF last_col THEN 0 ELSE grid.col + 1,
                                   !.row = IF last_col THEN grid.row + 1 ELSE grid.row]
    /\ UNCHANGED <<pc, cell_size, outline_file, csv, outline, listings, cell_index, features, output_file, exit_status>>
    /\ UNCHANGED <<cliVars, configVars, gameVars>>

\* both loops are over: create_grid returns grid_cells
create_grid_return ==
    /\ pc = "create_grid_loop"
    /\ grid.row >= grid.rows \/ grid.cols <= 0
    /\ pc' = "process_grid"
    /\ cell_index' = 1
    /\ features' = <<>>
    /\ UNCHANGED <<cell_size, outline_file, csv, outline, listings, grid, grid_cells, output_file, exit_status>>
    /\ UNCHANGED <<cliVars, configVars, gameVars>>

----------------------------------------------------------------------------
(* calculate_price_stats and process_grid                                  *)

\* a Float that is the quotient of two integers, in hundredths
Rat(num, den) == [num |-> num, den |-> den]

\* variant: the hundredths are cut, not rounded
Round2Floor(x) == x.num \div x.den

\* Float#round(2): the nearest number of hundredths
Round2(x) == RoundDiv(x.num, x.den)

Range(s) == {s[i] : i \in 1..Len(s)}

Nil == Rat(0, 0)

\* [min, max, mean, count] of the prices
calculate_price_stats(prices) ==
    IF prices = <<>> THEN <<Nil, Nil, Nil, 0>>
    ELSE LET valid_prices == SelectSeq(prices, LAMBDA p : p > 0)
         IN  IF valid_prices = <<>> THEN <<Nil, Nil, Nil, 0>>
             ELSE <<Rat(MinOf(Range(valid_prices)), 1),
                    Rat(MaxOf(Range(valid_prices)), 1),
                    Rat(SumSeq(valid_prices), Len(valid_prices)),
                    Len(valid_prices)>>

\* variant: a point of the cell's edges is within the cell too
InCellClosed(cell, listing) == Covers(cell.polygon, listing.point)

\* the listing's price joins prices_in_cell
InCell(cell, listing) == Contains(cell.polygon, listing.point)

\* prices_in_cell: the prices of the listings within the cell, in order
RECURSIVE PricesInCell(_, _)
PricesInCell(cell, airbnb_listings) ==
    IF airbnb_listings = <<>> THEN <<>>
    ELSE (IF InCell(cell, Head(airbnb_listings)) THEN <<Head(airbnb_listings).price>> ELSE <<>>)
         \o PricesInCell(cell, Tail(airbnb_listings))

\* the feature of a cell with data
CellFeature(cell, stats) ==
    [id |-> cell.id, left |-> cell.left, top |-> cell.top, right |-> cell.right, bottom |-> cell.bottom,
     price_min |-> Round2(stats[1]), price_max |-> Round2(stats[2]), price_mean |-> Round2(stats[3]),
     listings_count |-> stats[4],
     coordinates |-> cell.polygon]

\* variant: a cell with a single point is left out
HasDataMany(num_points) == num_points > 1

\* the cell is included in features
HasData(num_points) == num_points > 0

\* one iteration of grid_cells.each_with_index
process_grid_cell ==
    /\ pc = "process_grid"
    /\ cell_index <= Len(grid_cells)
    /\ LET cell == grid_cells[cell_index]
           stats == calculate_price_stats(PricesInCell(cell, listings))
       IN  features' = IF HasData(stats[4]) THEN Append(features, CellFeature(cell, stats)) ELSE features
    /\ cell_index' = cell_index + 1
    /\ UNCHANGED <<pc, cell_size, outline_file, csv, outline, listings, grid, grid_cells, output_file, exit_status>>
    /\ UNCHANGED <<cliVars, configVars, gameVars>>

process_grid_return ==
    /\ pc = "process_grid"
    /\ cell_index > Len(grid_cells)
    /\ pc' = "write"
    /\ UNCHANGED <<cell_size, outline_file, csv, outline, listings, grid, grid_cells, cell_index, features, output_file, exit_status>>
    /\ UNCHANGED <<cliVars, configVars, gameVars>>

----------------------------------------------------------------------------
(* generate: the output document and the end of the run                    *)

GeojsonOutput(size, feats) ==
    [type |-> "FeatureCollection", name |-> size, crs |-> "urn:ogc:def:crs:EPSG::4326", features |-> feats]

\* File.write(output_file, ...), the statistics printed after it, and the
\* end of the script
write_output ==
    /\ pc = "write"
    /\ output_file' = Append(output_file, GeojsonOutput(cell_size, features))
    /\ pc' = "exited"
    /\ exit_status' = Exit(0)
    /\ UNCHANGED <<cell_size, outline_file, csv, outline, listings, grid, grid_cells, cell_index, features>>
    /\ UNCHANGED <<cliVars, configVars, gameVars>>

Next ==
    \/ load_city_outline
    \/ ReadRow
    \/ CsvRaises
    \/ load_airbnb_data_return
    \/ create_grid_begin
    \/ create_grid_cell
    \/ create_grid_return
    \/ process_grid_cell
    \/ process_grid_return
    \/ write_output

Spec == Init /\ [][Next]_vars

\* the interpreter runs the script to its end: every statement that can
\* execute eventually does
FairSpec == Spec /\ WF_vars(Next)

----------------------------------------------------------------------------
(* Vocabulary of the properties                                            *)

\* process_grid has returned its features
Aggregated == pc \in {"write", "exited"}

\* the run ended with the output written
Succeeded == pc = "exited" /\ exit_status = Exit(0)

Indices(s) == 1..Len(s)

\* the rectangle of lattice position (row, col)
LatticeRect(row, col) ==
    [left |-> grid.min_lon + col * grid.cell_size_lon,
     right |-> grid.min_lon + (col + 1) * grid.cell_size_lon,
     bottom |-> grid.min_lat + row * grid.cell_size_lat,
     top |-> grid.min_lat + (row + 1) * grid.cell_size_lat]

Lattice == (0..(grid.rows - 1)) \X (0..(grid.cols - 1))

\* p is inside the rectangle, not on its edges
StrictlyInside(rect, p) ==
    rect.left < p[1] /\ p[1] < rect.right /\ rect.bottom < p[2] /\ p[2] < rect.top

\* p is in [left, right) x [bottom, top)
InHalfOpen(rect, p) ==
    rect.left <= p[1] /\ p[1] < rect.right /\ rect.bottom <= p[2] /\ p[2] < rect.top

\* p is on an edge of the rectangle
OnEdge(rect, p) ==
    /\ rect.left <= p[1] /\ p[1] <= rect.right /\ rect.bottom <= p[2] /\ p[2] <= rect.top
    /\ ~StrictlyInside(rect, p)

\* p lies on an edge the two cells share
SharedEdgePoint(c1, c2, p) == c1.id # c2.id /\ OnEdge(c1, p) /\ OnEdge(c2, p)

\* The rectangle and the polygon of the ring have a point in common. The
\* vertices of both are integer points and every edge is parallel to an axis
\* or to a diagonal, so the vertices of their intersection are integer
\* points: they have a point in common iff they have an integer one.
SharesPoint(ring, rect) ==
    \E x \in rect.left..rect.right, y \in rect.bottom..rect.top : Covers(ring, <<x, y>>)

\* the listings_count the output reports for the kept cell, 0 when the cell
\* has no feature
ReportedCount(cell) ==
    LET ks == {k \in Indices(features) : features[k].id = cell.id}
    IN  IF ks = {} THEN 0 ELSE features[CHOOSE k \in ks : TRUE].listings_count

TotalCount == SumSeq([k \in Indices(features) |-> features[k].listings_count])

----------------------------------------------------------------------------
(* C1 - Conservation: the listings_count of the features add up to the     *)
(* number of loaded points that fall inside (not on an edge of) some kept  *)
(* and populated cell, and no loaded point is inside more than one         *)
(* feature's rectangle.                                                    *)

PopulatedCells ==
    {k \in Indices(grid_cells) : \E i \in Indices(listings) : StrictlyInside(grid_cells[k], listings[i].point)}

C1_Conservation ==
    Aggregated =>
        /\ TotalCount = Cardinality({i \in Indices(listings) :
                            \E k \in PopulatedCells : StrictlyInside(grid_cells[k], listings[i].point)})
        /\ \A i \in Indices(listings) :
              Cardinality({k \in Indices(features) : StrictlyInside(features[k], listings[i].point)}) <= 1

\* a finished run with several features and a loaded point on the edge
\* between two kept cells, which no feature counts
C1_Witness ==
    /\ Succeeded
    /\ Len(features) >= 2
    /\ TotalCount < Len(listings)
    /\ \E i \in Indices(listings), k1 \in Indices(grid_cells), k2 \in Indices(grid_cells) :
          SharedEdgePoint(grid_cells[k1], grid_cells[k2], listings[i].point)

----------------------------------------------------------------------------
(* C2 - Half-open edge convention: when a loaded point lies on the edge    *)
(* shared by two kept cells, each of the two cells reports exactly the     *)
(* loaded points of its [left,right) x [bottom,top) range, so that the     *)
(* point is counted in one of them.                                        *)

HalfOpenCount(cell) == Cardinality({i \in Indices(listings) : InHalfOpen(cell, listings[i].point)})

C2_HalfOpenEdges ==
    Aggregated =>
        \A k1 \in Indices(grid_cells), k2 \in Indices(grid_cells), i \in Indices(listings) :
            SharedEdgePoint(grid_cells[k1], grid_cells[k2], listings[i].point)
                => ReportedCount(grid_cells[k1]) = HalfOpenCount(grid_cells[k1])

----------------------------------------------------------------------------
(* C3 - create_grid keeps a lattice position iff its rectangle and the     *)
(* boundary polygon have a point in common (area, edge or vertex), and     *)
(* keeps it once, in row-major order.                                      *)

KeptPositions == {<<grid_cells[k].row, grid_cells[k].col>> : k \in Indices(grid_cells)}

C3_KeptIffIntersects ==
    (pc = "process_grid" /\ cell_index = 1) =>
        /\ KeptPositions = {rc \in Lattice : SharesPoint(outline, LatticeRect(rc[1], rc[2]))}
        /\ Cardinality(KeptPositions) = Len(grid_cells)
        /\ \A k \in Indices(grid_cells) :
              /\ grid_cells[k].left = LatticeRect(grid_cells[k].row, grid_cells[k].col).left
              /\ grid_cells[k].right = LatticeRect(grid_cells[k].row, grid_cells[k].col).right
              /\ grid_cells[k].bottom = LatticeRect(grid_cells[k].row, grid_cells[k].col).bottom
              /\ grid_cells[k].top = LatticeRect(grid_cells[k].row, grid_cells[k].col).top

\* a built grid with a kept position that only touches the boundary (no
\* point of the boundary polygon strictly inside it, none of the rectangle's
\* interior in the polygon) and a position that is left out
C3_Witness ==
    /\ pc = "process_grid" /\ cell_index = 1
    /\ \E rc \in Lattice : rc \notin KeptPositions
    /\ \E k \in Indices(grid_cells) :
          LET rect == grid_cells[k]
          IN  /\ \A x \in rect.left..rect.right, y \in rect.bottom..rect.top :
                    Covers(outline, <<x, y>>) => OnEdge(rect, <<x, y>>) /\ OnBoundary(<<x, y>>, outline)
              /\ Cardinality({<<x, y>> \in (rect.left..rect.right) \X (rect.bottom..rect.top) :
                    Covers(outline, <<x, y>>)}) = 1

----------------------------------------------------------------------------
(* C4 - Exclusion: a lattice position whose rectangle has no point in      *)
(* common with the boundary polygon is no feature of the output, whatever  *)
(* the loaded points.                                                      *)

C4_Exclusion ==
    Aggregated =>
        \A rc \in Lattice :
            ~SharesPoint(outline, LatticeRect(rc[1], rc[2]))
                => \A k \in Indices(features) :
                      /\ features[k].id # rc[1] * grid.cols + rc[2] + 1
                      /\ ~(features[k].left = LatticeRect(rc[1], rc[2]).left
                           /\ features[k].bottom = LatticeRect(rc[1], rc[2]).bottom)

\* a finished run with a loaded point inside the rectangle of a position
\* that lies outside the boundary
C4_Witness ==
    /\ Succeeded
    /\ \E rc \in Lattice :
          /\ ~SharesPoint(outline, LatticeRect(rc[1], rc[2]))
          /\ \E i \in Indices(listings) : StrictlyInside(LatticeRect(rc[1], rc[2]), listings[i].point)

----------------------------------------------------------------------------
(* C5 - Id scheme: every feature's id is row * cols + col + 1 for the row  *)
(* and col its bottom and left are the offsets of, and the ids of the      *)
(* features are pairwise distinct.                                         *)

C5_IdScheme ==
    Aggregated =>
        /\ \A k \in Indices(features) :
              \E rc \in Lattice :
                  /\ features[k].bottom = grid.min_lat + rc[1] * grid.cell_size_lat
                  /\ features[k].left = grid.min_lon + rc[2] * grid.cell_size_lon
                  /\ features[k].id = rc[1] * grid.cols + rc[2] + 1
        /\ \A k1 \in Indices(features), k2 \in Indices(features) :
              features[k1].id = features[k2].id => k1 = k2

\* a finished run whose features skip an id: a feature comes after a
\* position that was not kept
C5_Witness ==
    /\ Succeeded
    /\ Len(features) >= 2
    /\ \E k \in Indices(features), rc \in Lattice :
          /\ rc \notin KeptPositions
          /\ rc[1] * grid.cols + rc[2] + 1 < features[k].id

----------------------------------------------------------------------------
(* C6 - Statistics: a feature's listings_count, price_min, price_max and   *)
(* price_mean are the count, the minimum, the maximum and the mean         *)
(* (sum / count, rounded once to the nearest hundredth) of the prices of   *)
(* the loaded points binned into its cell.                                 *)

\* the loaded points binned into the rectangle
Binned(rect) == {i \in Indices(listings) : StrictlyInside(rect, listings[i].point)}

RECURSIVE PriceSum(_)
PriceSum(S) == IF S = {} THEN 0 ELSE LET i == CHOOSE j \in S : TRUE IN listings[i].price + PriceSum(S \ {i})

C6_Statistics ==
    Aggregated =>
        \A k \in Indices(features) :
            LET f == features[k]
                B == Binned(f)
                n == Cardinality(B)
            IN  /\ f.listings_count = n
                /\ \E i \in B : listings[i].price = f.price_min
                /\ \A i \in B : f.price_min <= listings[i].price
                /\ \E i \in B : listings[i].price = f.price_max
                /\ \A i \in B : f.price_max >= listings[i].price
                /\ 2 * n * f.price_mean <= 2 * PriceSum(B) + n
                /\ 2 * PriceSum(B) + n < 2 * n * f.price_mean + 2 * n

\* a finished run with a cell that received the prices 50, 100 and 150 and
\* reports 50.00, 150.00, 100.00 and 3
C6_Witness ==
    /\ Succeeded
    /\ \E k \in Indices(features) :
          /\ {listings[i].price : i \in Binned(features[k])} = {50 * PriceScale, 100 * PriceScale, 150 * PriceScale}
          /\ features[k].listings_count = 3
          /\ features[k].price_min = 50 * PriceScale
          /\ features[k].price_max = 150 * PriceScale
          /\ features[k].price_mean = 100 * PriceScale

----------------------------------------------------------------------------
(* C7 - Only populated cells are emitted: every feature has a              *)
(* listings_count of at least 1, a kept cell with a binned point has       *)
(* exactly one feature and a kept cell with none has no feature.           *)

FeaturesOf(cell) == {k \in Indices(features) : features[k].id = cell.id}

C7_OnlyPopulated ==
    Aggregated =>
        /\ \A k \in Indices(features) : features[k].listings_count >= 1
        /\ \A c \in Indices(grid_cells) :
              Cardinality(FeaturesOf(grid_cells[c])) = IF Binned(grid_cells[c]) # {} THEN 1 ELSE 0

\* a finished run with a kept cell that has a feature and a kept cell that
\* has none
C7_Witness ==
    /\ Succeeded
    /\ \E c \in Indices(grid_cells) : FeaturesOf(grid_cells[c]) # {}
    /\ \E c \in Indices(grid_cells) : FeaturesOf(grid_cells[c]) = {}

----------------------------------------------------------------------------
(* C8 - Row validation: the listings are the rows read with price > 0,     *)
(* latitude # 0 and longitude # 0, in the order of the file, and reading a *)
(* row that fails one of these changes neither the listings nor the        *)
(* position of the run nor its exit status.                                *)

ValidRow(row) ==
    /\ StringToF(StripCurrency(row.price)) > 0
    /\ CoordToF(row.latitude) # 0
    /\ CoordToF(row.longitude) # 0

ValidRows == SelectSeq(csv, ValidRow)

ListingsAreValidRows ==
    /\ Len(listings) = Len(ValidRows)
    /\ \A i \in Indices(listings) :
          /\ listings[i].price = StringToF(StripCurrency(ValidRows[i].price))
          /\ listings[i].lat = CoordToF(ValidRows[i].latitude)
          /\ listings[i].lon = CoordToF(ValidRows[i].longitude)
          /\ listings[i].point = <<listings[i].lon, listings[i].lat>>

InvalidRowIsSkipped ==
    (csv' # csv /\ ~ValidRow(csv'[Len(csv')]))
        => /\ listings' = listings
           /\ pc' = pc
           /\ exit_status' = exit_status
           /\ exit_status = None

C8_RowValidation == [](ListingsAreValidRows) /\ [][InvalidRowIsSkipped]_vars

\* a finished run whose file had a row with a bad price, then a valid
\* row, then a row with a zero coordinate
C8_Witness ==
    /\ Succeeded
    /\ Len(csv) = 3
    /\ StringToF(StripCurrency(csv[1].price)) = 0
    /\ ValidRow(csv[2])
    /\ StringToF(StripCurrency(csv[3].price)) > 0 /\ ~ValidRow(csv[3])
    /\ Len(listings) = 1

----------------------------------------------------------------------------
(* C9 - Boundary extraction: the geometry is the first feature's of a      *)
(* feature collection, a single feature's, or the document; the outline is *)
(* the outer ring of a Polygon and of the first polygon of a MultiPolygon; *)
(* with any other geometry type, and with a document that cannot be read,  *)
(* the run exits with status 1 with no grid built and nothing written.     *)

Readable(doc) == "type" \in DOMAIN doc

\* the geometry of the document, the document itself when it has none
DocumentGeometry(doc) ==
    CASE doc.type = "FeatureCollection" /\ Len(doc.features) >= 1 -> doc.features[1].geometry
      [] doc.type = "Feature" /\ "geometry" \in DOMAIN doc -> doc.geometry
      [] OTHER -> doc

FatalExit ==
    /\ pc = "exited" /\ exit_status = Exit(1)
    /\ outline = <<>> /\ grid = NoGrid /\ grid_cells = <<>> /\ features = <<>> /\ output_file = <<>>

C9_BoundaryExtraction ==
    pc # "load_city_outline" =>
        IF ~Readable(outline_file) THEN FatalExit
        ELSE LET g == DocumentGeometry(outline_file)
             IN  CASE g.type = "MultiPolygon" -> outline = g.coordinates[1][1]
                   [] g.type = "Polygon" -> outline = g.coordinates[1]
                   [] OTHER -> FatalExit

\* the outline was read from a single feature whose geometry is a
\* MultiPolygon of two polygons, the first one with a hole
C9_Witness ==
    /\ pc = "load_airbnb_data"
    /\ outline_file.type = "Feature"
    /\ outline_file.geometry.type = "MultiPolygon"
    /\ Len(outline_file.geometry.coordinates) = 2
    /\ Len(outline_file.geometry.coordinates[1]) = 2
    /\ outline = outline_file.geometry.coordinates[1][1]

----------------------------------------------------------------------------
(* C10 - Pipeline: the stages follow each other in the order load          *)
(* boundary, load points, build grid, aggregate, write; the output is      *)
(* written at most once, by the write stage; a loader that fails ends the  *)
(* run with status 1 and nothing written; every run ends, either with      *)
(* status 0 and the output written once or with status 1 and no output.    *)

StageOrder ==
    { <<"load_city_outline", "load_airbnb_data">>,
      <<"load_airbnb_data", "create_grid">>,
      <<"create_grid", "create_grid_loop">>,
      <<"create_grid_loop", "process_grid">>,
      <<"process_grid", "write">> }

StagesInOrder ==
    pc' # pc =>
        \/ <<pc, pc'>> \in StageOrder /\ exit_status' = None
        \/ pc \in {"load_city_outline", "load_airbnb_data"} /\ pc' = "exited" /\ exit_status' = Exit(1) /\ output_file' = <<>>
        \/ pc = "write" /\ pc' = "exited" /\ exit_status' = Exit(0)

WrittenByWriteStage ==
    output_file' # output_file => pc = "write" /\ output_file = <<>> /\ Len(output_file') = 1

\* the run has ended (and only then has an exit status), in one of the two
\* outcomes
Outcome ==
    /\ pc = "exited" <=> exit_status # None
    /\ pc = "exited" =>
          \/ exit_status = Exit(0) /\ Len(output_file) = 1
          \/ exit_status = Exit(1) /\ output_file = <<>>

\* once load_city_outline has run on an outline it cannot load, the run is
\* over with status 1
FatalOutline ==
    (OutlineRaises(outline_file) /\ pc # "load_city_outline")
        => pc = "exited" /\ exit_status = Exit(1) /\ output_file = <<>>

C10_Pipeline ==
    /\ [][StagesInOrder /\ WrittenByWriteStage]_vars
    /\ [](Len(output_file) <= 1 /\ Outcome /\ FatalOutline)
    /\ <>(pc = "exited")

\* a run that read rows and then ended on an error of the listings file
C10_Witness ==
    /\ pc = "exited"
    /\ exit_status = Exit(1)
    /\ Len(csv) >= 1
    /\ output_file = <<>>

----------------------------------------------------------------------------
(* The script's main block: arguments, input files, the generator's run    *)

HelpShort == <<"-", "h">>

HelpLong == <<"-", "-", "h", "e", "l", "p">>

\* the cell-size arguments of the model: "200", "400", "-5", "abc", "0", "200m"
SizeArguments ==
    { <<"2", "0", "0">>, <<"4", "0", "0">>, <<"-", "5">>, <<"a", "b", "c">>, <<"0">>,
      <<"2", "0", "0", "m">> }

\* the command lines of the model
CommandLines ==
    {<<>>, <<HelpShort>>, <<HelpLong>>, <<Lisboa>>, <<Lisboa, HelpShort>>, <<Lisboa, <<"-", "5">>, HelpLong>>}
        \cup {<<Lisboa, size>> : size \in SizeArguments}

\* the outline documents of the runs started from the command line
CliOutlineFiles == {PolygonGeometry(<<Wedge>>), [exception |-> "JSON::ParserError"]}

\* ARGV.include?(arg)
Include(ARGV, arg) == \E i \in 1..Len(ARGV) : ARGV[i] = arg

\* the usage text is asked for: a help flag anywhere, or no argument at all
HelpRequested(ARGV) == Include(ARGV, HelpShort) \/ Include(ARGV, HelpLong) \/ Len(ARGV) < 1

\* the cell size used when the second argument is absent
DefaultCellSize == 200

\* a Float of the script, held in hundredths, as the whole meters of @cell_size
Meters(float) == float \div PriceScale

\* what the argument parsing decides: the exit status (None to go on),
\* whether the usage text is printed, and main's city and cell_size.
\* String#to_f raises for no string, so the rescue clause never runs.
ParseArguments(ARGV) ==
    IF HelpRequested(ARGV)
    THEN [exit |-> Exit(0), usage |-> TRUE, city |-> None, cell_size |-> None]
    ELSE IF Len(ARGV) > 1
         THEN IF StringToF(ARGV[2]) <= 0
              THEN [exit |-> Exit(1), usage |-> TRUE, city |-> ARGV[1], cell_size |-> Meters(StringToF(ARGV[2]))]
              ELSE [exit |-> None, usage |-> FALSE, city |-> ARGV[1], cell_size |-> Meters(StringToF(ARGV[2]))]
         ELSE [exit |-> None, usage |-> FALSE, city |-> ARGV[1], cell_size |-> DefaultCellSize]

\* the script up to the check of the input files
parse_arguments ==
    /\ pc = "main"
    /\ LET parsed == ParseArguments(argv)
       IN  /\ usage' = parsed.usage
           /\ city' = parsed.city
           /\ cell_size' = parsed.cell_size
           /\ exit_status' = parsed.exit
           /\ pc' = IF parsed.exit = None THEN "check_files" ELSE "exited"
    /\ UNCHANGED <<outline_file, csv, outline, listings, grid, grid_cells, cell_index, features, output_file>>
    /\ UNCHANGED <<argv, files, configVars, gameVars>>

\* the exit status after the two File.exist? tests, None when both files exist
CheckFiles(existing) ==
    IF "outline" \notin existing THEN Exit(1)
    ELSE IF "listings" \notin existing THEN Exit(1)
    ELSE None

check_files ==
    /\ pc = "check_files"
    /\ exit_status' = CheckFiles(files)
    /\ pc' = IF CheckFiles(files) = None THEN "new" ELSE "exited"
    /\ UNCHANGED <<cell_size, outline_file, csv, outline, listings, grid, grid_cells, cell_index, features, output_file>>
    /\ UNCHANGED <<cliVars, configVars, gameVars>>

\* GridGenerator.new(city, cell_size) and the call of generate
run_generator ==
    /\ pc = "new"
    /\ pc' = "load_city_outline"
    /\ UNCHANGED <<cell_size, outline_file, csv, outline, listings, grid, grid_cells, cell_index, features, output_file, exit_status>>
    /\ UNCHANGED <<cliVars, configVars, gameVars>>

\* the command is started: nothing has run yet
CliInit ==
    /\ pc = "main"
    /\ argv \in CommandLines
    /\ files \in SUBSET {"outline", "listings"}
    /\ city = None
    /\ usage = FALSE
    /\ cell_size = None
    /\ outline_file \in CliOutlineFiles
    /\ csv = <<>>
    /\ outline = <<>>
    /\ listings = <<>>
    /\ grid = NoGrid
    /\ grid_cells = <<>>
    /\ cell_index = 0
    /\ features = <<>>
    /\ output_file = <<>>
    /\ exit_status = None
    /\ PageNotLoaded
    /\ MinesweeperGame

CliNext ==
    \/ parse_arguments
    \/ check_files
    \/ run_generator
    \/ Next

CliSpec == CliInit /\ [][CliNext]_vars

----------------------------------------------------------------------------
(* Claims about the command line                                           *)

HasHelpFlag == Include(argv, HelpShort) \/ Include(argv, HelpLong)

\* the text of a decimal number: an optional sign, digits, and optionally
\* a point followed by digits, with nothing before or after
Numeric(str) ==
    LET body == IF str # <<>> /\ Head(str) = "-" THEN Tail(str) ELSE str
        int == DigitPrefix(body)
        rest == SubSeq(body, Len(int) + 1, Len(body))
    IN  /\ int # <<>>
        /\ \/ rest = <<>>
           \/ /\ Head(rest) = "."
              /\ Len(rest) > 1
              /\ DigitPrefix(Tail(rest)) = Tail(rest)

\* a cell-size argument is given and is not the text of a positive number
BadCellSize ==
    /\ ~HasHelpFlag
    /\ Len(argv) > 1
    /\ ~Numeric(argv[2]) \/ StringToF(argv[2]) <= 0

\* an input file of the city is missing, the arguments being acceptable
MissingFile == ~HasHelpFlag /\ argv # <<>> /\ ~BadCellSize /\ files # {"outline", "listings"}

ExitedNonZero == pc = "exited" /\ exit_status \notin {None, Exit(0)}

\* neither has a GridGenerator run nor has a file been written
NoGeneratorRun == pc \in {"main", "check_files", "new", "exited"} /\ outline = <<>> /\ output_file = <<>>

\* C11: once the arguments are parsed, a cell-size argument that is
\* non-positive or non-numeric has made the command print the usage text
\* and exit non-zero; once the files are checked, a missing outline or
\* listings file has made it exit non-zero; the help flag has made it exit
\* zero; and in the three cases no GridGenerator runs and no file is written.
C11_CliOutcomes ==
    /\ BadCellSize /\ pc # "main" => usage /\ ExitedNonZero
    /\ MissingFile /\ pc \notin {"main", "check_files"} => ExitedNonZero
    /\ HasHelpFlag /\ pc # "main" => pc = "exited" /\ exit_status = Exit(0)
    /\ BadCellSize \/ MissingFile \/ HasHelpFlag => NoGeneratorRun

\* C12: once the arguments are parsed, a command given no argument at all
\* has ended with a non-zero status, and it writes no output.
C12_MissingCity ==
    argv = <<>> /\ pc # "main" => ExitedNonZero /\ output_file = <<>>

----------------------------------------------------------------------------
(* Claims about the emitted features                                       *)

\* the features emitted so far and those of the documents written
Emitted == Range(features) \cup UNION {Range(output_file[d].features) : d \in Indices(output_file)}

\* C13: the polygon ring of every emitted feature has exactly 5 vertices,
\* top-left, top-right, bottom-right, bottom-left, top-left, made of the
\* left, right, top and bottom of the feature's properties; its first
\* vertex is its last, and left < right and bottom < top.
C13_RingShape ==
    \A f \in Emitted :
        /\ Len(f.coordinates) = 5
        /\ f.coordinates[1] = <<f.left, f.top>>
        /\ f.coordinates[2] = <<f.right, f.top>>
        /\ f.coordinates[3] = <<f.right, f.bottom>>
        /\ f.coordinates[4] = <<f.left, f.bottom>>
        /\ f.coordinates[5] = <<f.left, f.top>>
        /\ f.coordinates[1] = f.coordinates[Len(f.coordinates)]
        /\ f.left < f.right
        /\ f.bottom < f.top

\* a document with two features of distinct cells has been written
C13_Witness ==
    /\ Succeeded
    /\ \E f1, f2 \in Range(output_file[1].features) : f1.left # f2.left \/ f1.top # f2.top

----------------------------------------------------------------------------
(* The end-to-end scenario: a square of 2 x 2 cells and 10 listings        *)

\* the cell size of the scenario
ScenarioCellSize == MaxOf(CellSizes)

\* the square boundary: from (1, 1), two cell widths wide and two cell
\* heights high
Square ==
    LET w == 2 * meters_to_degrees_lon(ScenarioCellSize)
        h == 2 * meters_to_degrees_lat(ScenarioCellSize)
    IN  <<<<1, 1>>, <<1 + w, 1>>, <<1 + w, 1 + h>>, <<1, 1 + h>>, <<1, 1>>>>

\* the number of listings of each quadrant, in the order the cells are
\* laid out: bottom-left, bottom-right, top-left, top-right
Quota == <<2, 3, 1, 4>>

\* the quadrant of the k-th data row of the listings file: the rows of a
\* quadrant follow each other
QuadrantOfRow(k) ==
    MinOf({q \in 1..Len(Quota) : k <= SumSeq(SubSeq(Quota, 1, q))})

\* the data rows that lie strictly inside quadrant q
ScenarioRows(q) ==
    LET w == meters_to_degrees_lon(ScenarioCellSize)
        h == meters_to_degrees_lat(ScenarioCellSize)
        left == 1 + ((q - 1) % 2) * w
        bottom == 1 + ((q - 1) \div 2) * h
    IN  { [price |-> <<"1", "0", "0">>, latitude |-> <<bottom + y>>, longitude |-> <<left + x>>] :
              <<x, y>> \in {<<3, 2>>, <<w - 3, h - 2>>} }

\* one iteration of CSV.foreach over the listings file of the scenario
ReadScenarioRow ==
    /\ pc = "load_airbnb_data"
    /\ Len(csv) < SumSeq(Quota)
    /\ \E row \in ScenarioRows(QuadrantOfRow(Len(csv) + 1)) :
          /\ csv' = Append(csv, row)
          /\ listings' = IF SkipRow(row) THEN listings ELSE Append(listings, Listing(row))
    /\ UNCHANGED <<pc, cell_size, outline_file, outline, grid, grid_cells, cell_index, features, output_file, exit_status>>
    /\ UNCHANGED <<cliVars, configVars, gameVars>>

\* CSV.foreach reaches the end of the file of the scenario
ScenarioEndOfFile ==
    /\ Len(csv) = SumSeq(Quota)
    /\ load_airbnb_data_return

ScenarioInit ==
    /\ pc = "load_city_outline"
    /\ cell_size = ScenarioCellSize
    /\ outline_file \in {PolygonGeometry(<<Square>>), Feature(PolygonGeometry(<<Square>>))}
    /\ csv = <<>>
    /\ outline = <<>>
    /\ listings = <<>>
    /\ grid = NoGrid
    /\ grid_cells = <<>>
    /\ cell_index = 0
    /\ features = <<>>
    /\ output_file = <<>>
    /\ exit_status = None
    /\ Launched(cell_size)
    /\ PageNotLoaded
    /\ MinesweeperGame

ScenarioNext ==
    \/ load_city_outline
    \/ ReadScenarioRow
    \/ ScenarioEndOfFile
    \/ create_grid_begin
    \/ create_grid_cell
    \/ create_grid_return
    \/ process_grid_cell
    \/ process_grid_return
    \/ write_output

ScenarioSpec == ScenarioInit /\ [][ScenarioNext]_vars

\* C14: for a square boundary spanning exactly 2 cell widths by 2 cell
\* heights the grid has rows = 2 and cols = 2 and create_grid keeps all 4
\* lattice cells; with 10 loaded points lying 2, 3, 1 and 4 strictly inside
\* the four quadrants, process_grid yields exactly four features, whose
\* listings_count values are 2, 3, 1 and 4 and sum to 10.
C14_Scenario ==
    /\ pc \notin {"load_city_outline", "load_airbnb_data", "create_grid"} => grid.rows = 2 /\ grid.cols = 2
    /\ pc \in {"process_grid", "write", "exited"} =>
          /\ Len(grid_cells) = 4
          /\ KeptPositions = Lattice
    /\ pc \in {"write", "exited"} =>
          /\ Len(listings) = 10
          /\ Len(features) = 4
          /\ \A q \in 1..4 : features[q].listings_count = Quota[q]
          /\ \A q \in 1..4 : features[q].id = q
          /\ TotalCount = 10

\* the run of the scenario has written its document, two listings of one
\* quadrant lying at different points
C14_Witness ==
    /\ Succeeded
    /\ Len(output_file[1].features) = 4
    /\ \E i, j \in Indices(listings) :
          /\ listings[i].point # listings[j].point
          /\ StrictlyInside(grid_cells[1], listings[i].point)
          /\ StrictlyInside(grid_cells[1], listings[j].point)

----------------------------------------------------------------------------
(* The page's configuration (GameConfig) and the path of the data file     *)
(* A query parameter is a String, <<>> when absent or empty; a mode is     *)
(* held as one TLA+ string, "" when absent or empty, being only compared.  *)

Letters ==
    { "a", "b", "c", "d", "e", "f", "g", "h", "i", "j", "k", "l", "m",
      "n", "o", "p", "q", "r", "s", "t", "u", "v", "w", "x", "y", "z",
      "A", "B", "C", "D", "E", "F", "G", "H", "I", "J", "K", "L", "M",
      "N", "O", "P", "Q", "R", "S", "T", "U", "V", "W", "X", "Y", "Z" }

\* the query strings of the model: city "", "lx", "-h", "l x"; gridSize "",
\* "200", "0200", "0", "abc", "-5"; value "", "3", "0", "-1", "abc", "2.5"
SearchStrings ==
    [ city : {<<>>, Lisboa, HelpShort, <<"l", " ", "x">>},
      gridSize : {<<>>, <<"2", "0", "0">>, <<"0", "2", "0", "0">>, <<"0">>, <<"a", "b", "c">>, <<"-", "5">>},
      mode : {"", "listings_count", "price_mean", "price_max"},
      value : {<<>>, <<"3">>, <<"0">>, <<"-", "1">>, <<"a", "b", "c">>, <<"2", ".", "5">>} ]

\* a Number of the page: Not-a-Number, or the value v in hundredths
NaN == [nan |-> TRUE, v |-> 0]

Number(v) == [nan |-> FALSE, v |-> v]

\* parseFloat, in hundredths: the leading number of the string, NaN when
\* the string (or null) starts with none
ParseFloat(str) ==
    LET body == IF str # <<>> /\ Head(str) = "-" THEN Tail(str) ELSE str
    IN  IF DigitPrefix(body) = <<>> THEN NaN ELSE Number(StringToF(str))

\* x || y for a string x
OrString(x, y) == IF x = <<>> THEN y ELSE x

\* x || y for a mode x
OrMode(x, y) == IF x = "" THEN y ELSE x

\* x || y for a number x: NaN and 0 are falsy
OrNumber(x, y) == IF x.nan \/ x.v = 0 THEN y ELSE x

parseURLParams(urlParams) ==
    [ city |-> OrString(urlParams.city, Lisboa),
      gridSize |-> OrString(urlParams.gridSize, <<"1", "0", "0", "0">>),
      mode |-> OrMode(urlParams.mode, "listings_count"),
      value |-> OrNumber(ParseFloat(urlParams.value), Number(3 * PriceScale)) ]

\* /^[a-zA-Z0-9_-]+$/.test(str)
CityPattern(str) == str # <<>> /\ \A i \in 1..Len(str) : str[i] \in Letters \cup Digits \cup {"_", "-"}

\* /^\d+$/.test(str)
DigitsPattern(str) == str # <<>> /\ \A i \in 1..Len(str) : str[i] \in Digits

\* the Error validateParams throws, None when it returns
validateParams(p) ==
    IF ~CityPattern(p.city) THEN <<"Invalid city name">>
    ELSE IF ~DigitsPattern(p.gridSize) THEN <<"Invalid grid size">>
    ELSE IF p.mode \notin {"listings_count", "price_mean"} THEN <<"Invalid game mode">>
    ELSE IF p.value.nan \/ p.value.v <= 0 THEN <<"Invalid threshold value">>
    ELSE None

\* window.gameConfig = new GameConfig(): the object exists when the
\* constructor returns
GameConfig ==
    /\ search # None
    /\ params = None
    /\ thrown = None
    /\ LET p == parseURLParams(search)
       IN  /\ thrown' = validateParams(p)
           /\ params' = IF validateParams(p) = None THEN p ELSE None
    /\ UNCHANGED <<search, data_url, generated>>
    /\ UNCHANGED <<generatorVars, cliVars, gameVars>>

\* config.getValue()
getValue(p) == p.value

DataURL(p) == <<"d", "a", "t", "a", "/">> \o p.city \o <<"_">> \o p.gridSize \o <<".", "g", "e", "o", "j", "s", "o", "n">>

\* config.getDataURL(), as loadGeoJSONData calls it
getDataURL ==
    /\ params # None
    /\ data_url = None
    /\ data_url' = DataURL(params)
    /\ UNCHANGED <<search, params, thrown, generated>>
    /\ UNCHANGED <<generatorVars, cliVars, gameVars>>

\* the generator's output_file for @city and @cell_size (whole meters)
OutputFile(name, size) == <<"d", "a", "t", "a", "/">> \o name \o <<"_">> \o ToS(size) \o <<".", "g", "e", "o", "j", "s", "o", "n">>

\* what the script does for the arguments ARGV when both input files exist
\* and the generator's run succeeds: its exit status and the path written
GeneratorRun(ARGV) ==
    LET parsed == ParseArguments(ARGV)
    IN  IF parsed.exit = None
        THEN [exit |-> Exit(0), path |-> OutputFile(parsed.city, parsed.cell_size)]
        ELSE [exit |-> parsed.exit, path |-> None]

\* the generator is run with the page's city and grid size
generate_for_page ==
    /\ params # None
    /\ generated = None
    /\ generated' = <<GeneratorRun(<<params.city, params.gridSize>>)>>
    /\ UNCHANGED <<search, params, thrown, data_url>>
    /\ UNCHANGED <<generatorVars, cliVars, gameVars>>

\* no command runs beside the page
NoCommand ==
    /\ pc = "exited"
    /\ cell_size = None
    /\ outline_file = None
    /\ csv = <<>>
    /\ outline = <<>>
    /\ listings = <<>>
    /\ grid = NoGrid
    /\ grid_cells = <<>>
    /\ cell_index = 0
    /\ features = <<>>
    /\ output_file = <<>>
    /\ exit_status = None
    /\ argv = <<>>
    /\ files = {}
    /\ city = None
    /\ usage = FALSE

\* the page is opened with some query string; no generator process and no
\* game yet
ConfigInit ==
    /\ search \in SearchStrings
    /\ params = None
    /\ thrown = None
    /\ data_url = None
    /\ generated = None
    /\ NoCommand
    /\ MinesweeperGame

ConfigNext ==
    \/ GameConfig
    \/ getDataURL
    \/ generate_for_page

ConfigSpec == ConfigInit /\ [][ConfigNext]_vars

\* C15: for every city and gridSize that GameConfig's validation accepts,
\* the URL getDataURL returns is the path the generator writes when it is
\* run with the same city and the same cell size.
C15_PathAgreement ==
    params # None /\ data_url # None /\ generated # None => generated[1].path = data_url

----------------------------------------------------------------------------
(* The game (MinesweeperGame, src/js/game.js): its data                    *)
(* A cell is held by its index in this.cells, from 1. A property value     *)
(* and the threshold are Numbers in hundredths. The coordinates the page   *)
(* reads are Numbers held in page units of 1/111000 degree, fine enough    *)
(* for cells of a few meters and for the tolerance of areCellsAdjacent.    *)

\* page units per degree
PageUnitsPerDegree == MetersPerDegreeLat

\* the feature the generator emits for the cell of lattice position
\* (row, col) at cell size size (meters), with its listings_count and
\* price_mean
GridFeature(size, id, row, col, listings_count, price_mean) ==
    LET w == (size * PageUnitsPerDegree) \div MetersPerDegreeLon
        h == (size * PageUnitsPerDegree) \div MetersPerDegreeLat
    IN  [id |-> id, left |-> 1 + col * w, right |-> 1 + (col + 1) * w,
         bottom |-> 1 + row * h, top |-> 1 + (row + 1) * h,
         listings_count |-> listings_count, price_mean |-> price_mean * PriceScale]

\* the feature of a cell of the default grid of 200 m
BoardFeature(id, row, col, listings_count, price_mean) ==
    GridFeature(DefaultCellSize, id, row, col, listings_count, price_mean)

\* three cells in a row
RowBoard ==
    << BoardFeature(1, 0, 0, 1, 50), BoardFeature(2, 0, 1, 1, 50), BoardFeature(3, 0, 2, 1, 120) >>

\* two rows of three cells
BlockBoard ==
    << BoardFeature(1, 0, 0, 3, 50), BoardFeature(2, 0, 1, 1, 50), BoardFeature(3, 0, 2, 1, 50),
       BoardFeature(4, 1, 0, 1, 50), BoardFeature(5, 1, 1, 1, 50), BoardFeature(6, 1, 2, 2, 150) >>

\* cells with gaps between them: the generator emits populated cells only
GapBoard ==
    << BoardFeature(1, 0, 0, 1, 50), BoardFeature(2, 0, 1, 1, 50), BoardFeature(4, 0, 3, 1, 50),
       BoardFeature(10, 1, 4, 4, 150) >>

\* two rows of two cells, each adjacent to the three others
QuadBoard ==
    << BoardFeature(1, 0, 0, 1, 50), BoardFeature(2, 0, 1, 1, 50),
       BoardFeature(3, 1, 0, 1, 50), BoardFeature(4, 1, 1, 1, 50) >>

\* the grid generated with cell size 10 (?gridSize=10): three cells in a
\* column, the topmost with three listings
FineBoard ==
    << GridFeature(10, 1, 0, 0, 1, 50), GridFeature(10, 2, 1, 0, 1, 50), GridFeature(10, 3, 2, 0, 3, 50) >>

\* the feature collections the page loads
Boards == {<<>>, RowBoard, BlockBoard, GapBoard, QuadBoard, FineBoard}

\* the query strings the game is played with: none, ?mode=price_mean and
\* ?mode=price_mean&value=100
GameSearches ==
    { [city |-> <<>>, gridSize |-> <<>>, mode |-> md, value |-> val] :
          <<md, val>> \in {<<"", <<>>>>, <<"price_mean", <<>>>>, <<"price_mean", <<"1", "0", "0">>>>} }

Abs(x) == IF x < 0 THEN -x ELSE x

\* 1 / tolerance, the tolerance being 0.0001 degree
ToleranceInverse == 10000

\* Math.abs(a - b) < tolerance, a and b in page units
Within(a, b) == Abs(a - b) * ToleranceInverse < PageUnitsPerDegree

getCellBounds(cell) ==
    [left |-> cell.feature.left, right |-> cell.feature.right, top |-> cell.feature.top, bottom |-> cell.feature.bottom]

areCellsAdjacent(bounds1, bounds2) ==
    LET horizontallyAdjacent ==
            \/ Within(bounds1.right, bounds2.left)
            \/ Within(bounds1.left, bounds2.right)
            \/ bounds1.left < bounds2.right /\ bounds1.right > bounds2.left
        verticallyAdjacent ==
            \/ Within(bounds1.top, bounds2.bottom)
            \/ Within(bounds1.bottom, bounds2.top)
            \/ bounds1.bottom < bounds2.top /\ bounds1.top > bounds2.bottom
    IN  /\ horizontallyAdjacent
        /\ verticallyAdjacent
        /\ ~(/\ bounds1.left = bounds2.left
             /\ bounds1.right = bounds2.right
             /\ bounds1.top = bounds2.top
             /\ bounds1.bottom = bounds2.bottom)

\* props[mode], in hundredths
PropertyValue(props, mode) ==
    IF mode = "listings_count" THEN props.listings_count * PriceScale ELSE props.price_mean

\* the cells processGeoJSONData pushes
processGeoJSONData(data, config) ==
    [ index \in 1..Len(data) |->
        [ id |-> IF data[index].id # 0 THEN data[index].id ELSE index - 1,
          feature |-> data[index],
          value |-> PropertyValue(data[index], config.mode),
          isMine |-> PropertyValue(data[index], config.mode) >= config.value.v,
          isRevealed |-> FALSE,
          isFlagged |-> FALSE,
          adjacentMines |-> 0 ] ]

countAdjacentMines(cs, target) ==
    Cardinality({i \in Indices(cs) :
        /\ i # target
        /\ cs[i].isMine
        /\ areCellsAdjacent(getCellBounds(cs[target]), getCellBounds(cs[i]))})

calculateAdjacentMines(cs) ==
    [ i \in Indices(cs) |->
        IF ~cs[i].isMine THEN [cs[i] EXCEPT !.adjacentMines = countAdjacentMines(cs, i)] ELSE cs[i] ]

\* variant: the interval is forgotten but not cleared
stopTimerForget ==
    /\ timerInterval' = None
    /\ UNCHANGED intervals

\* clearInterval(this.timerInterval) when one is set
stopTimer ==
    IF timerInterval # None
    THEN /\ intervals' = intervals \ {timerInterval[1]}
         /\ timerInterval' = None
    ELSE UNCHANGED <<timerInterval, intervals>>

\* setInterval gives an id no interval has had
startTimer ==
    LET id == 1 + MaxOf(intervals \cup {0})
    IN  /\ intervals' = intervals \cup {id}
        /\ timerInterval' = <<id>>

\* map.js hands the loaded features to the game: resetGame,
\* processGeoJSONData, calculateAdjacentMines
initializeGame ==
    /\ stack = <<>>
    /\ \E data \in Boards :
          /\ geojsonData' = data
          /\ cells' = calculateAdjacentMines(processGeoJSONData(data, params))
          /\ mineCount' = Cardinality({i \in Indices(data) : processGeoJSONData(data, params)[i].isMine})
    /\ gameState' = "ready"
    /\ flagCount' = 0
    /\ revealedCount' = 0
    /\ stopTimer
    /\ UNCHANGED <<stack, configVars, generatorVars, cliVars>>

----------------------------------------------------------------------------
(* The game: the click handlers                                            *)
(* A handler runs to its end before the next event is handled. Its calls   *)
(* are frames of the stack: the frame of handleCellClick, at the statement *)
(* it has reached, and one frame per call of revealAdjacentCells, at the   *)
(* index of its forEach. The frame of handleCellClick remembers the cells  *)
(* as they were when the click was accepted.                               *)

ClickFrame(c, at, before) == [fn |-> "handleCellClick", cell |-> c, at |-> at, index |-> 0, before |-> before]

ForEachFrame(c, index) == [fn |-> "revealAdjacentCells", cell |-> c, at |-> "forEach", index |-> index, before |-> <<>>]

\* variant: a lost game is played on
GameIsOverWon(state) == state = "won"

\* variant: a game that is won is played on
GameIsOverLost(state) == state = "lost"

\* the game is over: the handlers return at once
GameIsOver(state) == state = "won" \/ state = "lost"

startGame ==
    /\ gameState' = "playing"
    /\ startTimer

\* whether revealCell(cell) reveals the cell
Reveals(cell) == ~(cell.isRevealed \/ cell.isFlagged)

\* this.cells after revealCell(cells[c])
revealCell(cs, c) == IF Reveals(cs[c]) THEN [cs EXCEPT ![c].isRevealed = TRUE] ELSE cs

\* this.revealedCount after revealCell(cells[c])
CountRevealed(count, cs, c) == IF Reveals(cs[c]) THEN count + 1 ELSE count

\* variant: cells already revealed are visited again
ShouldRevealAgain(cs, c, j) ==
    /\ j # c
    /\ ~cs[j].isFlagged
    /\ areCellsAdjacent(getCellBounds(cs[c]), getCellBounds(cs[j]))

\* variant: flagged cells are revealed too
ShouldRevealFlagged(cs, c, j) ==
    /\ j # c
    /\ ~cs[j].isRevealed
    /\ areCellsAdjacent(getCellBounds(cs[c]), getCellBounds(cs[j]))

\* the forEach of revealAdjacentCells(cells[c]) reveals cells[j]
ShouldReveal(cs, c, j) ==
    /\ j # c
    /\ ~cs[j].isRevealed
    /\ ~cs[j].isFlagged
    /\ areCellsAdjacent(getCellBounds(cs[c]), getCellBounds(cs[j]))

\* revealAdjacentCells is called again for the revealed cell
ShouldRecurse(cell) == cell.adjacentMines = 0 /\ ~cell.isMine

\* variant: the game is won when every cell is revealed
WinConditionAll(cs, mines, revealed) == revealed = Len(cs)

\* checkWinCondition's test
WinCondition(cs, mines, revealed) == revealed = Len(cs) - mines

\* variant: the mines are revealed whether flagged or not
RevealMinesAll(cs) ==
    [ i \in Indices(cs) |-> IF cs[i].isMine THEN [cs[i] EXCEPT !.isRevealed = TRUE] ELSE cs[i] ]

\* gameOver(false): the cells after the mines are revealed
RevealMines(cs) ==
    [ i \in Indices(cs) |->
        IF cs[i].isMine /\ ~cs[i].isFlagged THEN [cs[i] EXCEPT !.isRevealed = TRUE] ELSE cs[i] ]

\* handleCellClick(cells[c]), up to the call of revealCell
handleCellClick(c) ==
    /\ stack = <<>>
    /\ IF GameIsOver(gameState)
       THEN UNCHANGED <<gameState, timerInterval, intervals, stack>>
       ELSE IF cells[c].isFlagged \/ cells[c].isRevealed
       THEN UNCHANGED <<gameState, timerInterval, intervals, stack>>
       ELSE /\ IF gameState = "ready"
               THEN startGame
               ELSE UNCHANGED <<gameState, timerInterval, intervals>>
            /\ stack' = <<ClickFrame(c, "revealCell", cells)>>
    /\ UNCHANGED <<geojsonData, cells, mineCount, flagCount, revealedCount>>
    /\ UNCHANGED <<configVars, generatorVars, cliVars>>

\* handleCellClick: revealCell(cell), then gameOver(false) for a mine, or
\* the call of revealAdjacentCells for a cell with no adjacent mine
handleCellClick_revealCell ==
    /\ stack # <<>>
    /\ Head(stack).fn = "handleCellClick"
    /\ Head(stack).at = "revealCell"
    /\ LET c == Head(stack).cell
           next == [Head(stack) EXCEPT !.at = "checkWinCondition"]
       IN  /\ revealedCount' = CountRevealed(revealedCount, cells, c)
           /\ IF cells[c].isMine
              THEN /\ gameState' = "lost"
                   /\ stopTimer
                   /\ cells' = RevealMines(revealCell(cells, c))
                   /\ stack' = Tail(stack)
              ELSE /\ cells' = revealCell(cells, c)
                   /\ stack' = IF cells[c].adjacentMines = 0
                               THEN <<ForEachFrame(c, 1), next>> \o Tail(stack)
                               ELSE <<next>> \o Tail(stack)
                   /\ UNCHANGED <<gameState, timerInterval, intervals>>
    /\ UNCHANGED <<geojsonData, mineCount, flagCount>>
    /\ UNCHANGED <<configVars, generatorVars, cliVars>>

\* one iteration of the forEach of the innermost revealAdjacentCells, or
\* its return after the last cell
revealAdjacentCells ==
    /\ stack # <<>>
    /\ Head(stack).fn = "revealAdjacentCells"
    /\ LET c == Head(stack).cell
           j == Head(stack).index
           next == [Head(stack) EXCEPT !.index = j + 1]
       IN  IF j > Len(cells)
           THEN /\ stack' = Tail(stack)
                /\ UNCHANGED <<cells, revealedCount>>
           ELSE IF ShouldReveal(cells, c, j)
           THEN /\ cells' = revealCell(cells, j)
                /\ revealedCount' = CountRevealed(revealedCount, cells, j)
                /\ stack' = IF ShouldRecurse(cells[j])
                            THEN <<ForEachFrame(j, 1), next>> \o Tail(stack)
                            ELSE <<next>> \o Tail(stack)
           ELSE /\ stack' = <<next>> \o Tail(stack)
                /\ UNCHANGED <<cells, revealedCount>>
    /\ UNCHANGED <<geojsonData, gameState, mineCount, flagCount, timerInterval, intervals>>
    /\ UNCHANGED <<configVars, generatorVars, cliVars>>

\* handleCellClick: checkWinCondition, gameOver(true) when it holds, and
\* the handler's return
handleCellClick_checkWinCondition ==
    /\ stack # <<>>
    /\ Head(stack).fn = "handleCellClick"
    /\ Head(stack).at = "checkWinCondition"
    /\ IF WinCondition(cells, mineCount, revealedCount)
       THEN /\ gameState' = "won"
            /\ stopTimer
       ELSE UNCHANGED <<gameState, timerInterval, intervals>>
    /\ stack' = Tail(stack)
    /\ UNCHANGED <<geojsonData, cells, mineCount, flagCount, revealedCount>>
    /\ UNCHANGED <<configVars, generatorVars, cliVars>>

\* this.cells after toggleFlag(cells[c])
toggleFlag(cs, c) == IF cs[c].isRevealed THEN cs ELSE [cs EXCEPT ![c].isFlagged = ~cs[c].isFlagged]

\* this.flagCount after toggleFlag(cells[c])
CountFlagged(count, cs, c) ==
    IF cs[c].isRevealed THEN count
    ELSE IF toggleFlag(cs, c)[c].isFlagged THEN count + 1 ELSE count - 1

handleCellRightClick(c) ==
    /\ stack = <<>>
    /\ IF GameIsOver(gameState)
       THEN UNCHANGED <<gameState, timerInterval, intervals, cells, flagCount>>
       ELSE IF cells[c].isRevealed
       THEN UNCHANGED <<gameState, timerInterval, intervals, cells, flagCount>>
       ELSE /\ IF gameState = "ready"
               THEN startGame
               ELSE UNCHANGED <<gameState, timerInterval, intervals>>
            /\ cells' = toggleFlag(cells, c)
            /\ flagCount' = CountFlagged(flagCount, cells, c)
    /\ UNCHANGED <<geojsonData, mineCount, revealedCount, stack>>
    /\ UNCHANGED <<configVars, generatorVars, cliVars>>

\* the page has constructed its configuration and its game, and has asked
\* for the data file
GameInit ==
    /\ search \in GameSearches
    /\ params = parseURLParams(search)
    /\ thrown = validateParams(params)
    /\ data_url = DataURL(params)
    /\ generated = None
    /\ NoCommand
    /\ MinesweeperGame

GameNext ==
    \/ initializeGame
    \/ \E c \in Indices(cells) : handleCellClick(c)
    \/ handleCellClick_revealCell
    \/ revealAdjacentCells
    \/ handleCellClick_checkWinCondition
    \/ \E c \in Indices(cells) : handleCellRightClick(c)

GameSpec == GameInit /\ [][GameNext]_vars

\* a handler that has started runs on: the browser executes its next
\* statement
HandlerStep == handleCellClick_revealCell \/ revealAdjacentCells \/ handleCellClick_checkWinCondition

GameFairSpec == GameSpec /\ WF_vars(HandlerStep)

----------------------------------------------------------------------------
(* Claims about the game                                                   *)

\* no handler runs: the game waits for the next event
Idle == stack = <<>>

Mines == {c \in Indices(cells) : cells[c].isMine}

SafeCells == {c \in Indices(cells) : ~cells[c].isMine}

RevealedIn(cs) == {c \in Indices(cs) : cs[c].isRevealed}

FlaggedIn(cs) == {c \in Indices(cs) : cs[c].isFlagged}

\* the step is a left or right click that the handler does not ignore
AcceptedClick ==
    \E c \in Indices(cells) :
        \/ handleCellClick(c) /\ ~GameIsOver(gameState) /\ ~cells[c].isFlagged /\ ~cells[c].isRevealed
        \/ handleCellRightClick(c) /\ ~GameIsOver(gameState) /\ ~cells[c].isRevealed

StateMachineStep ==
    /\ initializeGame => gameState' = "ready"
    /\ gameState = "ready" /\ gameState' # "ready" => gameState' = "playing" /\ AcceptedClick
    /\ gameState' \in {"won", "lost"} /\ gameState' # gameState => gameState = "playing"
    /\ gameState \in {"won", "lost"} /\ gameState' # gameState => initializeGame

\* C16: gameState is always one of ready, playing, won, lost; a step of
\* initializeGame leaves it ready; it leaves ready only to playing and only
\* by a left or right click that is not ignored; it becomes won or lost
\* only from playing; and once won or lost it changes only by a step of
\* initializeGame, whatever is clicked.
C16_StateMachine ==
    /\ [](gameState \in {"ready", "playing", "won", "lost"})
    /\ [][StateMachineStep]_vars

\* a game has been started by a right click and then won
C16_Witness == gameState = "won" /\ flagCount > 0 /\ Idle

\* the handler of a left click is about to reveal cell c
Revealing(c) ==
    /\ stack # <<>>
    /\ Head(stack).fn = "handleCellClick"
    /\ Head(stack).at = "revealCell"
    /\ Head(stack).cell = c

LosingStep ==
    \A c \in Mines :
        /\ /\ handleCellClick(c)
           /\ ~cells[c].isRevealed
           /\ ~cells[c].isFlagged
           /\ gameState \in {"ready", "playing"}
           => Revealing(c)' /\ cells' = cells
        /\ Revealing(c) =>
              /\ gameState' = "lost"
              /\ Idle'
              /\ \A m \in Mines :
                    IF cells[m].isFlagged
                    THEN cells'[m].isFlagged /\ ~cells'[m].isRevealed
                    ELSE cells'[m].isRevealed

\* C17: a left click on an unrevealed, unflagged mine while the game is
\* ready or playing is not ignored, and the handler then sets gameState to
\* lost and returns in a state where every mine that is not flagged is
\* revealed and every flagged mine is still flagged and unrevealed.
C17_Losing == [][LosingStep]_vars

\* a game is lost with one mine flagged and unrevealed and two more revealed
C17_Witness ==
    /\ gameState = "lost"
    /\ \E m \in Mines : cells[m].isFlagged /\ ~cells[m].isRevealed
    /\ Cardinality(Mines \cap RevealedIn(cells)) >= 2

\* every non-mine cell is revealed and no mine is
AllSafeRevealed == SafeCells \subseteq RevealedIn(cells) /\ Mines \cap RevealedIn(cells) = {}

\* C18 (as claimed): in every state between two handlers of an initialized,
\* non-empty game, gameState is won if and only if every non-mine cell is
\* revealed and no mine is revealed.
C18_WonIff == Idle /\ cells # <<>> => (gameState = "won" <=> AllSafeRevealed)

\* C18 (amended): in every state between two handlers of a game that has
\* at least one non-mine cell, gameState is won if and only if every
\* non-mine cell is revealed and no mine is revealed.
C18_WonIffSafeCell == Idle /\ SafeCells # {} => (gameState = "won" <=> AllSafeRevealed)

\* a game with a mine has been won
C18_Witness == Idle /\ gameState = "won" /\ Mines # {} /\ SafeCells # {}

Adjacent(cs, i, j) == areCellsAdjacent(getCellBounds(cs[i]), getCellBounds(cs[j]))

\* a cell a chain may pass through: unflagged, not a mine, no adjacent mine
Passable(cell) == ~cell.isFlagged /\ ~cell.isMine /\ cell.adjacentMines = 0

\* S with every unflagged cell reached from S by a chain of adjacent cells
\* whose cells before the last are passable
RECURSIVE ChainClosure(_, _)
ChainClosure(cs, S) ==
    LET more == {j \in Indices(cs) : ~cs[j].isFlagged /\ \E i \in S : Passable(cs[i]) /\ Adjacent(cs, i, j)}
    IN  IF more \subseteq S THEN S ELSE ChainClosure(cs, S \cup more)

\* the same, every cell of the chain after the first being unrevealed
RECURSIVE UnrevealedChainClosure(_, _)
UnrevealedChainClosure(cs, S) ==
    LET more == {j \in Indices(cs) :
                    /\ ~cs[j].isFlagged
                    /\ ~cs[j].isRevealed
                    /\ \E i \in S : Passable(cs[i]) /\ Adjacent(cs, i, j)}
    IN  IF more \subseteq S THEN S ELSE UnrevealedChainClosure(cs, S \cup more)

\* the handler of a left click on cell c, a cell with no adjacent mine,
\* has come back from revealAdjacentCells
FloodDone(c) ==
    /\ stack # <<>>
    /\ Head(stack).fn = "handleCellClick"
    /\ Head(stack).at = "checkWinCondition"
    /\ Head(stack).cell = c
    /\ cells[c].adjacentMines = 0

\* the cells as they were when the click was accepted
Before == Head(stack).before

\* the flood reveals no mine and neither reveals nor unflags a flagged cell
FloodSpares ==
    /\ Mines \cap RevealedIn(cells) \subseteq RevealedIn(Before)
    /\ \A j \in FlaggedIn(Before) : cells[j].isFlagged /\ ~cells[j].isRevealed

\* C19 (as claimed): a left click on an unrevealed, unflagged non-mine cell
\* with adjacentMines = 0 reveals exactly that cell and every unflagged
\* cell reachable from it by a chain of adjacent cells whose cells before
\* the last are unflagged non-mine cells with adjacentMines = 0; it reveals
\* no mine and neither reveals nor unflags a flagged cell.
C19_FloodFill ==
    \A c \in Indices(cells) :
        FloodDone(c) =>
            /\ RevealedIn(cells) = RevealedIn(Before) \cup ChainClosure(Before, {c})
            /\ FloodSpares

\* C19 (amended): such a click reveals exactly that cell and every
\* unflagged, unrevealed cell reachable from it by a chain of adjacent
\* cells whose cells before the last are unflagged non-mine cells with
\* adjacentMines = 0 that were unrevealed when the click was made; it
\* reveals no mine and neither reveals nor unflags a flagged cell.
C19_FloodFillUnrevealed ==
    \A c \in Indices(cells) :
        FloodDone(c) =>
            /\ RevealedIn(cells) = RevealedIn(Before) \cup UnrevealedChainClosure(Before, {c})
            /\ FloodSpares

\* a flood has revealed at least three cells, one of them with an adjacent
\* mine, and has gone round a flagged neighbour
C19_Witness ==
    \E c \in Indices(cells) :
        /\ FloodDone(c)
        /\ Cardinality(RevealedIn(cells) \ RevealedIn(Before)) >= 3
        /\ \E j \in RevealedIn(cells) \ RevealedIn(Before) : cells[j].adjacentMines > 0
        /\ \E j \in FlaggedIn(cells) : Adjacent(cells, c, j)

\* the cells whose revealAdjacentCells call is on the stack, outermost first
FloodCalls == SelectSeq(stack, LAMBDA frame : frame.fn = "revealAdjacentCells")

\* no cell has two calls of revealAdjacentCells on the stack, and every
\* cell that has one is revealed: the recursion is no deeper than the board
BoundedRecursion ==
    /\ \A i, j \in Indices(FloodCalls) : FloodCalls[i].cell = FloodCalls[j].cell => i = j
    /\ \A i \in Indices(FloodCalls) : cells[FloodCalls[i].cell].isRevealed
    /\ Len(stack) <= Len(cells) + 1

\* within a game a revealed cell stays revealed, and revealCell counts a
\* cell only as it turns it from hidden to revealed
RevealedOnce ==
    stack # <<>> =>
        /\ RevealedIn(cells) \subseteq RevealedIn(cells')
        /\ gameState' # "lost" =>
              revealedCount' - revealedCount = Cardinality(RevealedIn(cells') \ RevealedIn(cells))
        /\ revealedCount' - revealedCount <= 1

\* C20: on every board of the model, those whose adjacency has cycles
\* included, the recursion of revealAdjacentCells is bounded by the board
\* and ends, each cell is revealed at most once in a game, and every click
\* handler that has started returns.
C20_Termination ==
    /\ [](BoundedRecursion)
    /\ [][RevealedOnce]_vars
    /\ (stack # <<>>) ~> (stack = <<>>)

\* the recursion is three calls deep on a board whose cells are adjacent in
\* cycles
C20_Witness ==
    /\ Len(FloodCalls) >= 3
    /\ \E i, j, k \in Indices(cells) :
          /\ i # j /\ j # k /\ i # k
          /\ Adjacent(cells, i, j) /\ Adjacent(cells, j, k) /\ Adjacent(cells, k, i)

----------------------------------------------------------------------------
(* Ignored clicks                                                          *)

Over == gameState \in {"won", "lost"}

\* the step starts the handler of a left click on cell c that is not ignored
LeftClickTaken(c) == Idle /\ ~Idle' /\ Head(stack').fn = "handleCellClick" /\ Head(stack').cell = c

\* the step is an event handled at once that is not a call of initializeGame
\* and changes cell c: a right click on c that is not ignored
RightClickTaken(c) == Idle /\ Idle' /\ ~initializeGame /\ cells'[c] # cells[c]

IgnoredClickStep ==
    /\ Idle /\ Over /\ ~initializeGame => UNCHANGED gameVars
    /\ \A c \in Indices(cells) :
          /\ LeftClickTaken(c) => ~cells[c].isFlagged /\ ~cells[c].isRevealed
          /\ RightClickTaken(c) => ~cells[c].isRevealed
    /\ Idle /\ Idle' /\ ~initializeGame /\ cells' = cells => UNCHANGED gameVars

\* C21: ignored clicks leave the game unchanged. While gameState is won or
\* lost, every step but initializeGame leaves gameState, the cells,
\* flagCount, revealedCount and the timer interval as they are; a left
\* click starts its handler only on a cell neither flagged nor revealed; a
\* right click changes only a cell that is not revealed; and a click that
\* changes no cell changes nothing else.
C21_IgnoredClicks == [][IgnoredClickStep]_vars

\* a game is being played with a flagged and a revealed cell on the board,
\* and a game is over with unrevealed cells left: clicks on them are ignored
C21_Witness ==
    /\ Idle
    /\ \/ gameState = "playing" /\ FlaggedIn(cells) # {} /\ RevealedIn(cells) # {}
       \/ Over /\ RevealedIn(cells) # Indices(cells)

----------------------------------------------------------------------------
(* Flags and revealed cells                                                *)

\* C22: in every state that left and right clicks reach, the states in the
\* middle of a handler included, no cell is both revealed and flagged.
C22_RevealedNotFlagged == \A c \in Indices(cells) : ~(cells[c].isRevealed /\ cells[c].isFlagged)

\* a flood fill has passed a flagged cell: the flagged cell has no mine and
\* lies next to a revealed cell with no adjacent mine
C22_Witness ==
    /\ Idle
    /\ \E c, d \in Indices(cells) :
          /\ cells[c].isFlagged /\ ~cells[c].isMine
          /\ cells[d].isRevealed /\ cells[d].adjacentMines = 0
          /\ Adjacent(cells, c, d)

----------------------------------------------------------------------------
(* Counters                                                                *)

\* C23: in every reachable state mineCount is the number of cells with
\* isMine, flagCount is the number of cells with isFlagged and is not
\* negative, and revealedCount is the number of cells with isRevealed.
C23_Counters ==
    /\ mineCount = Cardinality(Mines)
    /\ flagCount = Cardinality(FlaggedIn(cells))
    /\ flagCount >= 0
    /\ revealedCount = Cardinality(RevealedIn(cells))

----------------------------------------------------------------------------
(* Adjacent-mine counts                                                    *)

\* two cells of the generator's lattice share a border or a corner: the
\* one is at one of the eight lattice positions around the other
SharesBorderOrCorner(f1, f2) ==
    /\ f1.left <= f2.right /\ f2.left <= f1.right
    /\ f1.bottom <= f2.top /\ f2.bottom <= f1.top
    /\ <<f1.left, f1.bottom>> # <<f2.left, f2.bottom>>

\* the mines at the eight lattice positions around cell c
NeighbouringMines(c) == {m \in Mines : SharesBorderOrCorner(cells[c].feature, cells[m].feature)}

\* the mines the game takes as adjacent to cell c
AdjacentMinesOf(c) == {m \in Mines : m # c /\ Adjacent(cells, c, m)}

\* C24: after initializeGame a cell is a mine iff its property value for
\* the configured mode is >= the threshold; for every cell that is not a
\* mine adjacentMines is the number of mines at the eight lattice positions
\* around it, and no mine further away is counted; the adjacency relation
\* is symmetric and no cell is adjacent to itself.
C24_AdjacentMines ==
    /\ \A c \in Indices(cells) :
          /\ cells[c].isMine <=> PropertyValue(geojsonData[c], params.mode) >= params.value.v
          /\ ~Adjacent(cells, c, c)
          /\ \A d \in Indices(cells) : Adjacent(cells, c, d) <=> Adjacent(cells, d, c)
    /\ \A c \in SafeCells :
          /\ cells[c].adjacentMines = Cardinality(NeighbouringMines(c))
          /\ AdjacentMinesOf(c) \subseteq NeighbouringMines(c)

----------------------------------------------------------------------------
(* The timer                                                               *)

\* C25: after any sequence of initializeGame calls and clicks a timer
\* interval is active if and only if gameState is playing; at most one
\* interval is active at a time, the one this.timerInterval holds; none is
\* left running after a win, a loss or a reset.
C25_TimerLifecycle ==
    /\ intervals # {} <=> gameState = "playing"
    /\ Cardinality(intervals) <= 1
    /\ intervals = {timerInterval[i] : i \in Indices(timerInterval)}

\* a game started by a left click has been won: its interval was set and
\* has been cleared
C25_Witness == Idle /\ gameState = "won" /\ flagCount = 0 /\ intervals = {}

----------------------------------------------------------------------------
(* GameConfig validation                                                   *)

\* new GameConfig() has returned or thrown
Constructed == params # None \/ thrown # None

\* the query string has the parameter
Supplied(str) == str # <<>>

\* the string is the text of a positive number
PositiveNumber(str) == ~ParseFloat(str).nan /\ ParseFloat(str).v > 0

\* the three other parameters are absent or pass their validation
OthersValid ==
    /\ Supplied(search.city) => CityPattern(search.city)
    /\ Supplied(search.gridSize) => DigitsPattern(search.gridSize)
    /\ search.mode \in {"", "listings_count", "price_mean"}

\* C26: construction throws 'Invalid threshold value' whenever the value
\* parameter is supplied and is not a positive number (the other
\* parameters being valid); it throws for a city outside [a-zA-Z0-9_-]+,
\* for a gridSize that is not all digits and for a mode other than
\* listings_count and price_mean; and when it succeeds getValue() is the
\* supplied threshold, or 3 when the parameter is absent, and is > 0.
C26_Validation ==
    Constructed =>
        /\ Supplied(search.value) /\ ~PositiveNumber(search.value) =>
              /\ thrown # None
              /\ OthersValid => thrown = <<"Invalid threshold value">>
        /\ Supplied(search.city) /\ ~CityPattern(search.city) => thrown = <<"Invalid city name">>
        /\ Supplied(search.gridSize) /\ ~DigitsPattern(search.gridSize) => thrown # None
        /\ search.mode \notin {"", "listings_count", "price_mean"} => thrown # None
        /\ thrown = None =>
              /\ getValue(params) = IF Supplied(search.value)
                                    THEN ParseFloat(search.value)
                                    ELSE Number(3 * PriceScale)
              /\ ~getValue(params).nan
              /\ getValue(params).v > 0

====
